---- MODULE Spec2Model ----
(***************************************************************************)
(* A model of the user-management HTTP service of src/server.js.          *)
(*                                                                         *)
(* Every route handler is an async function whose segments interleave with *)
(* those of other requests at each `await`.  Only the store is shared, so  *)
(* a handler that makes one store call takes effect at that call: it is    *)
(* one action (guard, validation, hashing, the store call, the response).  *)
(* POST /create makes two store calls, findOne and save; it is two         *)
(* actions, and other requests run between them.                           *)
(* An awaited call may reject: inside a try block the catch answers the    *)
(* request; outside one the handler's promise rejects, and the request is  *)
(* either never answered (status 0) or answered by the framework's default *)
(* error handler, depending on the Express version installed.              *)
(***************************************************************************)
EXTENDS Naturals, FiniteSets, TLC

VARIABLES users, nextId, pending, last, deleted

vars == <<users, nextId, pending, last, deleted>>

(* ------------------------------ bounds -------------------------------- *)
MaxId == 2          \* ids the store may hand out: 1..MaxId
MaxNow == 1         \* jwt.sign reads a clock value in 0..MaxNow (seconds)

(* ------------------------- program constants -------------------------- *)
SaltRounds == 10    \* bcrypt.hash(password, 10)
ExpiresIn == 3600   \* jwt.sign(..., { expiresIn: "1h" }), in seconds

Ids == 1..MaxId
BadId == 0          \* a :id that is not a well-formed ObjectId
Times == 0..MaxNow

Absent == "<absent>"   \* a key the JSON body does not carry (undefined)

(* ------------------------------ values -------------------------------- *)
\* A password value: a plaintext string, or the output of bcrypt.hash.
Plain(p) == [kind |-> "plain", rounds |-> 0, text |-> p]
NoPw == [kind |-> "none", rounds |-> 0, text |-> Absent]

\* A user document; NoDoc is null.
NoDoc == [id |-> BadId, name |-> Absent, email |-> Absent, password |-> NoPw,
          role |-> Absent]

NoToken == [userId |-> BadId, role |-> Absent, iat |-> 0, exp |-> 0]

Body(n, e, p, r, i) == [name |-> n, email |-> e, password |-> p, role |-> r, _id |-> i]
NoBody == Body(Absent, Absent, Absent, Absent, Absent)

\* Request bodies the clients send.
ValidBodies == { Body("Ann", "a@x.com", "pw1", "admin", Absent),
                 Body("Ann", "b@x.com", "pw2", "admin", Absent),
                 Body("Bob", "a@x.com", "pw2", "admin", Absent) }
OtherBodies == { NoBody,
                 Body("Ann", "a@x.com", "pw1", "user", Absent),
                 Body(Absent, Absent, Absent, "admin", Absent),
                 Body("Ann", "bad", "pw1", "admin", Absent),
                 Body("Bob", "b@x.com", "pw1", "admin", "1") }
Bodies == ValidBodies \cup OtherBodies
DeleteBodies == { NoBody,
                  Body("Ann", "a@x.com", "pw1", "user", Absent),
                  Body(Absent, Absent, Absent, "admin", Absent) }
LoginBodies == { Body(Absent, e, p, Absent, Absent) :
                   e \in {"a@x.com", "b@x.com"}, p \in {"pw1", "pw2"} }

(* --------------------------- bcrypt, jwt ------------------------------ *)
\* bcrypt.hash(plaintext, rounds): a one-way digest of the plaintext at that
\* cost.  The salt is part of the digest and is not told apart here.
BcryptHash(p, rounds) == [kind |-> "bcrypt", rounds |-> rounds, text |-> p]

\* bcrypt.compare(plaintext, hash): re-hashes at the cost of hash and compares.
BcryptCompare(p, h) == h.kind = "bcrypt" /\ BcryptHash(p, h.rounds) = h

\* jwt.sign({ userId: user._id, role: user.role }, secret, { expiresIn: "1h" })
JwtSign(user, now) ==
  [userId |-> user.id, role |-> user.role, iat |-> now, exp |-> now + ExpiresIn]

(* ------------------------- validation, guard -------------------------- *)
IsEmail(s) == s \in {"a@x.com", "b@x.com"}

\* userValidationSchema.validate(body).error: the first failing key, "" if none.
Validate_AllowUnknown(b) ==
  IF b.name = Absent THEN "\"name\" is required"
  ELSE IF b.name = "" THEN "\"name\" is not allowed to be empty"
  ELSE IF b.email = Absent THEN "\"email\" is required"
  ELSE IF b.email = "" THEN "\"email\" is not allowed to be empty"
  ELSE IF ~IsEmail(b.email) THEN "\"email\" must be a valid email"
  ELSE IF b.password = Absent THEN "\"password\" is required"
  ELSE IF b.password = "" THEN "\"password\" is not allowed to be empty"
  ELSE IF b.role \notin {Absent, "admin", "user"} THEN "\"role\" must be one of [admin, user]"
  ELSE ""
Validate(b) ==
  IF b.name = Absent THEN "\"name\" is required"
  ELSE IF b.name = "" THEN "\"name\" is not allowed to be empty"
  ELSE IF b.email = Absent THEN "\"email\" is required"
  ELSE IF b.email = "" THEN "\"email\" is not allowed to be empty"
  ELSE IF ~IsEmail(b.email) THEN "\"email\" must be a valid email"
  ELSE IF b.password = Absent THEN "\"password\" is required"
  ELSE IF b.password = "" THEN "\"password\" is not allowed to be empty"
  ELSE IF b.role \notin {Absent, "admin", "user"} THEN "\"role\" must be one of [admin, user]"
  ELSE IF b._id # Absent THEN "\"_id\" is not allowed"
  ELSE ""

\* checkRole(role)(req, res, next): TRUE when next() is called.
checkRole_AbsentPasses(role, b) == b.role = role \/ b.role = Absent
checkRole_AnyRole(role, b) == b.role # Absent
checkRole(role, b) == ~(b.role # role)

(* ------------------------------ store --------------------------------- *)
\* User.findOne({ email }): a document with that email, or null.
FindOne(email) ==
  IF \E u \in users : u.email = email
    THEN {u \in users : u.email = email}
    ELSE {NoDoc}

\* User.findById(id): the document with that id, or null.
FindById(id) ==
  IF \E u \in users : u.id = id
    THEN CHOOSE u \in users : u.id = id
    ELSE NoDoc

\* A :id that mongoose can cast to an ObjectId; otherwise the query rejects.
ValidId(id) == id # BadId

\* new User({ name, email, password: hashedPassword, role }) with its fresh _id.
NewUser_RoleUser(id, b, hashedPassword) ==
  [id |-> id, name |-> b.name, email |-> b.email, password |-> hashedPassword,
   role |-> "user"]
NewUser(id, b, hashedPassword) ==
  [id |-> id, name |-> b.name, email |-> b.email, password |-> hashedPassword,
   role |-> b.role]

\* The collection after user.save().
Save(user) == users \cup {user}

\* The document findByIdAndUpdate(id, update, { new: true }) leaves: the keys
\* the update carries replace the stored ones.
ApplyUpdate(u, upd) ==
  [id |-> u.id,
   name |-> IF upd.name = Absent THEN u.name ELSE upd.name,
   email |-> IF upd.email = Absent THEN u.email ELSE upd.email,
   password |-> IF upd.password = NoPw THEN u.password ELSE upd.password,
   role |-> IF upd.role = Absent THEN u.role ELSE upd.role]

\* The collection after findByIdAndDelete found deletedUser.
Remove_Nothing(deletedUser) == users
Remove(deletedUser) == users \ {deletedUser}

(* ----------------------------- responses ------------------------------ *)
\* The latest request a handler finished with, and what it sent; status 0:
\* the handler ended without sending anything.
NoRequest == [op |-> "none", id |-> BadId, body |-> NoBody, status |-> 0, msg |-> "",
              payload |-> NoDoc, token |-> NoToken, list |-> {}]

Request(op, id, b) == [NoRequest EXCEPT !.op = op, !.id = id, !.body = b]

\* res.status(status).send(msg or payload)
Respond(r, status, msg, payload) ==
  [r EXCEPT !.status = status, !.msg = msg, !.payload = payload]

\* What the framework's default error handler sends with its 500.
FrameworkError == "<default error page>"

\* The handler's promise rejects: nothing is sent, or the framework answers.
Unhandled(r) == {r, Respond(r, 500, FrameworkError, NoDoc)}

Init ==
  /\ users = {}
  /\ nextId = 1
  /\ pending = {}
  /\ last = NoRequest
  /\ deleted = {}

\* GET /
Root ==
  /\ last' = Respond(Request("root", BadId, NoBody), 200, "Welcome to the backend server!", NoDoc)
  /\ UNCHANGED <<users, nextId, pending, deleted>>

(* POST /create *)
\* if (existingUser)
UserExists_Never(existingUser) == FALSE
UserExists(existingUser) == existingUser # NoDoc

\* The request arrives; checkRole, validate, findOne, bcrypt.hash, new User;
\* the handler is then suspended at user.save().
CreateRequest ==
  \E b \in Bodies :
    LET r == Request("create", BadId, b) IN
    IF ~checkRole("admin", b)
      THEN /\ last' = Respond(r, 403, "Access denied.", NoDoc)
           /\ UNCHANGED <<users, nextId, pending, deleted>>
    ELSE IF Validate(b) # ""
      THEN /\ last' = Respond(r, 400, Validate(b), NoDoc)
           /\ UNCHANGED <<users, nextId, pending, deleted>>
    ELSE
      \/ \* findOne or bcrypt.hash rejects, outside any try
         /\ last' \in Unhandled(r)
         /\ UNCHANGED <<users, nextId, pending, deleted>>
      \/ \E existingUser \in FindOne(b.email) :
           IF UserExists(existingUser)
             THEN /\ last' = Respond(r, 400, "User already exists.", NoDoc)
                  /\ UNCHANGED <<users, nextId, pending, deleted>>
             ELSE /\ nextId <= MaxId
                  /\ pending' = pending \cup
                       {[body |-> b,
                         user |-> NewUser(nextId, b, BcryptHash(b.password, SaltRounds))]}
                  /\ nextId' = nextId + 1
                  /\ UNCHANGED <<users, last, deleted>>

\* user.save() settles.
CreateSave ==
  \E c \in pending :
    /\ pending' = pending \ {c}
    /\ \/ /\ users' = Save(c.user)
          /\ last' = Respond(Request("create", BadId, c.body), 201, "", c.user)
       \/ /\ last' = Respond(Request("create", BadId, c.body), 400, "Error saving user.", NoDoc)
          /\ UNCHANGED users
    /\ UNCHANGED <<nextId, deleted>>

(* GET /all *)
List ==
  /\ \/ last' = [Respond(Request("list", BadId, NoBody), 200, "", NoDoc) EXCEPT !.list = users]
     \/ last' = Respond(Request("list", BadId, NoBody), 500, "Error retrieving users.", NoDoc)
  /\ UNCHANGED <<users, nextId, pending, deleted>>

(* GET /byId/:id *)
GetById ==
  \E id \in Ids \cup {BadId} :
    LET r == Request("getById", id, NoBody) IN
    /\ \/ last' = Respond(r, 500, "Error retrieving user.", NoDoc)
       \/ /\ ValidId(id)
          /\ LET user == FindById(id) IN
             last' = IF user = NoDoc THEN Respond(r, 404, "User not found.", NoDoc)
                     ELSE Respond(r, 200, "", user)
    /\ UNCHANGED <<users, nextId, pending, deleted>>

(* PUT /update/:id *)
\* if (req.body.password)
PasswordSupplied_Never(b) == FALSE
PasswordSupplied(b) == b.password \notin {Absent, ""}

\* req.body as the update document, its password hashed when supplied.
UpdateDoc(id, b) ==
  [id |-> id, name |-> b.name, email |-> b.email,
   password |-> IF PasswordSupplied(b) THEN BcryptHash(b.password, SaltRounds)
                ELSE IF b.password = Absent THEN NoPw ELSE Plain(b.password),
   role |-> b.role]

\* The store applies the update: the id casts, and _id, which the store
\* never rewrites, is not among the keys.
UpdateAccepted(id, b) == ValidId(id) /\ b._id = Absent

Update ==
  \E id \in Ids \cup {BadId}, b \in Bodies :
    LET r == Request("update", id, b) IN
    IF ~checkRole("admin", b)
      THEN /\ last' = Respond(r, 403, "Access denied.", NoDoc)
           /\ UNCHANGED <<users, nextId, pending, deleted>>
    ELSE IF Validate(b) # ""
      THEN /\ last' = Respond(r, 400, Validate(b), NoDoc)
           /\ UNCHANGED <<users, nextId, pending, deleted>>
    ELSE
      \/ \* bcrypt.hash rejects, outside any try
         /\ PasswordSupplied(b)
         /\ last' \in Unhandled(r)
         /\ UNCHANGED <<users, nextId, pending, deleted>>
      \/ \* findByIdAndUpdate rejects
         /\ last' = Respond(r, 500, "Error updating user.", NoDoc)
         /\ UNCHANGED <<users, nextId, pending, deleted>>
      \/ /\ UpdateAccepted(id, b)
         /\ LET user == FindById(id)
                updatedUser == ApplyUpdate(user, UpdateDoc(id, b)) IN
            IF user = NoDoc
              THEN /\ last' = Respond(r, 404, "User not found.", NoDoc)
                   /\ UNCHANGED users
              ELSE /\ users' = (users \ {user}) \cup {updatedUser}
                   /\ last' = Respond(r, 200, "", updatedUser)
         /\ UNCHANGED <<nextId, pending, deleted>>

(* DELETE /delete/:id *)
Delete ==
  \E id \in Ids \cup {BadId}, b \in DeleteBodies :
    LET r == Request("delete", id, b) IN
    IF ~checkRole("admin", b)
      THEN /\ last' = Respond(r, 403, "Access denied.", NoDoc)
           /\ UNCHANGED <<users, nextId, pending, deleted>>
    ELSE
      \/ /\ last' = Respond(r, 500, "Error deleting user.", NoDoc)
         /\ UNCHANGED <<users, nextId, pending, deleted>>
      \/ /\ ValidId(id)
         /\ LET deletedUser == FindById(id) IN
            IF deletedUser = NoDoc
              THEN /\ last' = Respond(r, 404, "User not found.", NoDoc)
                   /\ UNCHANGED <<users, deleted>>
              ELSE /\ users' = Remove(deletedUser)
                   /\ deleted' = deleted \cup {id}
                   /\ last' = Respond(r, 200, "User deleted.", NoDoc)
         /\ UNCHANGED <<nextId, pending>>

(* POST /login *)
\* if (!isPasswordValid) is not taken
PasswordAccepted_Always(isPasswordValid) == TRUE
PasswordAccepted(isPasswordValid) == ~(~isPasswordValid)

Login ==
  \E b \in LoginBodies :
    LET r == Request("login", BadId, b) IN
    /\ \/ \* findOne, bcrypt.compare or jwt.sign throws
          last' = Respond(r, 500, "Error logging in.", NoDoc)
       \/ \E user \in FindOne(b.email) :
            IF user = NoDoc
              THEN last' = Respond(r, 400, "User not found.", NoDoc)
            ELSE IF ~PasswordAccepted(BcryptCompare(b.password, user.password))
              THEN last' = Respond(r, 400, "Invalid password.", NoDoc)
            ELSE \E now \in Times :
                   last' = [Respond(r, 200, "", NoDoc) EXCEPT !.token = JwtSign(user, now)]
    /\ UNCHANGED <<users, nextId, pending, deleted>>

Next ==
  \/ Root
  \/ CreateRequest \/ CreateSave
  \/ List
  \/ GetById
  \/ Update
  \/ Delete
  \/ Login

Spec == Init /\ [][Next]_vars

(* ============================== claims ================================ *)
Mutating == {"create", "update", "delete"}

\* This step finished a request: it sent a response, or ended without one.
Finished == last' # last

\* A create request answered on arrival (not by its save settling).
AnsweredOnArrival == Finished /\ last'.op = "create" /\ pending' = pending

Held(email) == \E u \in users : u.email = email

(* C1: a create, update or delete whose body role is not "admin" (absent   *)
(* included) is answered 403 whatever else it carries, and leaves the      *)
(* stored users as they were.                                              *)
C1_GuardDenies ==
  [][ (Finished /\ last'.op \in Mutating /\ last'.body.role # "admin")
        => (last'.status = 403 /\ last'.msg = "Access denied." /\ users' = users
            /\ pending' = pending) ]_vars

C1_Witness ==
  /\ last.op = "update" /\ last.body.role = "user" /\ Validate(last.body) = ""
  /\ last.status = 403
  /\ \E u \in users : u.id = last.id

(* C2: no two stored users have the same email, in every reachable state.  *)
C2_UniqueEmails == \A u, v \in users : u.email = v.email => u = v

(* C3, as claimed: a create whose email a stored user holds is answered    *)
(* 400 "User already exists." whatever its other fields, and adds no user. *)
C3_DuplicateWhateverTheFields ==
  [][ (AnsweredOnArrival /\ Held(last'.body.email))
        => (last'.status = 400 /\ last'.msg = "User already exists." /\ users' = users) ]_vars

(* C3, amended: a create whose email a stored user holds when the lookup   *)
(* runs never adds a user and never reaches save; it is answered 403 when  *)
(* the body role is not "admin", else 400 with the validation message when *)
(* the body is invalid, else 400 "User already exists." whatever its name  *)
(* and password, unless the lookup rejects, which the handler does not    *)
(* answer.                                                                 *)
C3_DuplicateAfterGuardAndValidation ==
  [][ /\ \A c \in pending' \ pending : ~Held(c.user.email)
      /\ (AnsweredOnArrival /\ Held(last'.body.email))
           => /\ users' = users
              /\ IF ~checkRole("admin", last'.body) THEN last'.status = 403
                 ELSE IF Validate(last'.body) # ""
                   THEN last'.status = 400 /\ last'.msg = Validate(last'.body)
                 ELSE \/ last'.status = 400 /\ last'.msg = "User already exists."
                      \/ last' \in Unhandled(Request("create", BadId, last'.body)) ]_vars

C3_Witness ==
  /\ last.op = "create" /\ last.status = 400 /\ last.msg = "User already exists."
  /\ \E u \in users : u.email = last.body.email /\ u.name # last.body.name

(* C4: every stored password is a bcrypt hash, never a plaintext; the      *)
(* record a successful create or update with plaintext p returns is the    *)
(* stored one, its password differs from p and verifies against p.         *)
C4_PasswordsHashed ==
  /\ \A u \in users : u.password.kind = "bcrypt"
  /\ (last.op \in {"create", "update"} /\ last.status \in {200, 201})
       => /\ last.payload \in users
          /\ last.payload.password # Plain(last.body.password)
          /\ BcryptCompare(last.body.password, last.payload.password)

C4_Witness ==
  /\ last.op = "update" /\ last.status = 200
  /\ \E u \in users : u.id = last.id /\ BcryptCompare(last.body.password, u.password)
  /\ \E u \in users : u.id # last.id /\ ~BcryptCompare(last.body.password, u.password)

\* A stored user a login with body b is entitled to.
Verified(b) == {u \in users : u.email = b.email /\ BcryptCompare(b.password, u.password)}

(* C5, as claimed: login returns 200 with a token of that user's id and    *)
(* role, expiring an hour after issue, iff a user with that email is       *)
(* stored and the password verifies; otherwise 400 and no token.           *)
C5_LoginOrBadRequest ==
  last.op = "login"
    => IF Verified(last.body) # {}
         THEN /\ last.status = 200
              /\ \E u \in Verified(last.body) :
                   last.token.userId = u.id /\ last.token.role = u.role
              /\ last.token.exp = last.token.iat + 3600
         ELSE last.status = 400 /\ last.token = NoToken

(* C5, amended: login returns 200 with a token only when a stored user     *)
(* with that email verifies the password, the token carrying that user's   *)
(* id and role and expiring 3600 s after issue; 400 and no token only when *)
(* no user has that email or the user found does not verify; and 500 and   *)
(* no token when the lookup, the comparison or the signing throws.  A      *)
(* login every holder of whose email verifies never gets 400.              *)
C5_LoginOrBadRequestOrError ==
  last.op = "login"
    => /\ last.status \in {200, 400, 500}
       /\ last.status = 200
            => /\ \E u \in Verified(last.body) :
                    last.token.userId = u.id /\ last.token.role = u.role
               /\ last.token.exp = last.token.iat + 3600
       /\ last.status # 200 => last.token = NoToken
       /\ last.status = 400
            => \/ ~Held(last.body.email) /\ last.msg = "User not found."
               \/ /\ \E u \in users : u.email = last.body.email /\ u \notin Verified(last.body)
                  /\ last.msg = "Invalid password."
       /\ last.status = 500 => last.msg = "Error logging in."

C5_Witness ==
  /\ last.op = "login" /\ last.status = 200
  /\ \E u \in users : u.id = last.token.userId /\ u.email = last.body.email
  /\ \E u \in users : u.id # last.token.userId

(* C6: every request has been answered by its own handler, with a status   *)
(* and one of its fixed messages, whatever store or hashing call failed on *)
(* the way.                                                                *)
C6_EveryFailureAnswered ==
  last.op # "none" => last.status # 0 /\ last.msg # FrameworkError

(* C7, as claimed: once a delete of id i has returned 200, every later     *)
(* getById(i) returns 404.                                                 *)
C7_DeletedIsNotFound ==
  [][ (Finished /\ last'.op = "getById" /\ last'.id \in deleted)
        => (last'.status = 404 /\ last'.msg = "User not found.") ]_vars

(* C7, amended: once a delete of id i has returned 200, no stored user     *)
(* ever has id i again, and every later getById(i) returns 404, or 500     *)
(* when the store lookup fails; never 200.                                 *)
C7_DeletedIsNeverFound ==
  [][ /\ \A u \in users' : u.id \notin deleted'
      /\ (Finished /\ last'.op = "getById" /\ last'.id \in deleted)
           => \/ last'.status = 404 /\ last'.msg = "User not found."
              \/ last'.status = 500 /\ last'.msg = "Error retrieving user." ]_vars

C7_Witness ==
  /\ last.op = "getById" /\ last.id \in deleted /\ last.status = 404
  /\ users # {}

\* This step answers a getById on the id the create just answered returned.
GetByIdAfterCreate ==
  /\ last.op = "create" /\ last.status = 201
  /\ Finished /\ last'.op = "getById" /\ last'.id = last.payload.id

\* The record getById returned is the created one, the request's fields in it.
SameAsCreated ==
  /\ last'.status = 200
  /\ last'.payload = last.payload
  /\ last'.payload.name = last.body.name
  /\ last'.payload.email = last.body.email
  /\ last'.payload.role = last.body.role
  /\ last'.payload.password # Plain(last.body.password)
  /\ BcryptCompare(last.body.password, last'.payload.password)

(* C8, as claimed: a successful create followed by getById on the returned *)
(* id returns 200 with the created record: the request's name, email and   *)
(* role, and the hash create stored.                                       *)
C8_CreateThenGet == [][ GetByIdAfterCreate => SameAsCreated ]_vars

(* C8, amended: the same, unless the store lookup of getById fails, when   *)
(* the answer is 500.                                                      *)
C8_CreateThenGetOrError ==
  [][ GetByIdAfterCreate
        => \/ SameAsCreated
           \/ last'.status = 500 /\ last'.msg = "Error retrieving user." ]_vars

C8_Witness ==
  /\ last.op = "getById" /\ last.status = 200
  /\ last.payload \in users /\ last.payload.id = last.id
  /\ pending = {} /\ nextId = last.id + 1

IdsOf(us) == {u.id : u \in us}

(* C9: no update changes the id of any stored record: the ids stored are   *)
(* the same after it, every other record is untouched, the record returned *)
(* carries the id of the request; and an update whose body carries _id is  *)
(* refused (403 by the guard or 400 by validation) with the store          *)
(* untouched.                                                              *)
C9_IdImmutable ==
  [][ (Finished /\ last'.op = "update")
        => /\ IdsOf(users') = IdsOf(users)
           /\ \A u \in users : u.id # last'.id => u \in users'
           /\ last'.status = 200 => last'.payload.id = last'.id /\ last'.payload \in users'
           /\ last'.body._id # Absent
                => last'.status \in {400, 403} /\ users' = users ]_vars

C9_Witness ==
  /\ last.op = "update" /\ last.status = 200
  /\ \E u \in users : u.id = last.id /\ u = last.payload
  /\ \E u \in users : u.id # last.id

(* C10: every stored user has role "admin", and so does every token login  *)
(* issues.                                                                 *)
C10_OnlyAdmins ==
  /\ \A u \in users : u.role = "admin"
  /\ (last.op = "login" /\ last.status = 200) => last.token.role = "admin"

C10_Witness ==
  /\ last.op = "login" /\ last.status = 200 /\ last.token.role = "admin"
  /\ Cardinality(users) = 2

====
